---- MODULE Spec2Model ----
(***************************************************************************)
(* The migration engine of sea-schema (src/src/migration/migrator.rs):     *)
(* MigratorTrait::install / up / down / status / fresh / refresh / reset   *)
(* and the reconciliation of the declared migrations with the rows of the  *)
(* seaql_migrations table.                                                 *)
(*                                                                         *)
(* A migration name (and a history row's version) is a number: the number  *)
(* is the rank of the name in string order, so that `ORDER BY version ASC` *)
(* is the ascending order of the numbers.  A table is a number too: 0 is   *)
(* seaql_migrations, n is the table the unit named n creates, and          *)
(* NumNames + 1 is a table no declared unit owns.  The applied_at column   *)
(* is written but never read by the engine and is left out of a row.       *)
(*                                                                         *)
(* Every connection call (exec_stmt, query_all) and every unit body is one *)
(* step; each may fail, and a failed call changes nothing in the database. *)
(*                                                                         *)
(* The building of a statement for a backend (src/src/migration/           *)
(* statement.rs) is the operator build; SpecExec runs it for every         *)
(* statement type on every backend.                                        *)
(***************************************************************************)
EXTENDS Integers, Sequences, FiniteSets, TLC

\* ------------------------------------------------------------------ bounds
NumNames == 2
MaxLen == 2
MaxSteps == 2

\* --------------------------------------------------------------- constants
SeaqlMigrations == 0

Names == 1..NumNames
Orphan == NumNames + 1
AllTables == {SeaqlMigrations} \cup Names \cup {Orphan}
Backends == {"MySql", "Postgres", "Sqlite"}
Procs == {1, 2}

\* Option<u32>: None is the empty sequence, Some(k) is <<k>>.
None == <<>>
Some(k) == <<k>>
StepArgs == {None} \cup {Some(k) : k \in 0..MaxSteps}

\* The lists of at most MaxLen units with pairwise different names.
RECURSIVE ListsOfLen(_)
ListsOfLen(n) ==
    IF n = 0 THEN {<<>>}
    ELSE {Append(l, x) : l \in ListsOfLen(n - 1), x \in Names}
NoDup(l) == \A i, j \in 1..Len(l) : l[i] = l[j] => i = j
Lists == UNION {{l \in ListsOfLen(n) : NoDup(l)} : n \in 0..MaxLen}
\* The lists of at most MaxLen units in which some name occurs twice.
DupLists == UNION {{l \in ListsOfLen(n) : ~NoDup(l)} : n \in 0..MaxLen}
\* The lists of MaxLen + 1 units with pairwise different names, over one
\* name more.
LongLists == {l \in [1..(MaxLen + 1) -> 1..(NumNames + 1)] : NoDup(l)}

VARIABLES
    declared,   \* MigratorTrait::migrations(): the names of the declared units
    backend,    \* MigrationConnection::get_database_backend()
    tables,     \* the tables of the database
    history,    \* the versions of the rows of seaql_migrations
    fks,        \* the tables that carry a foreign key constraint
    fkCheck,    \* SQLite's foreign_keys pragma
    inv,        \* per invocation: the position of the running engine operation
    prev,       \* the operation completed before the current one
    exec        \* the SchemaManager::exec_stmt call of a unit body

vars == <<declared, backend, tables, history, fks, fkCheck, inv, prev, exec>>

\* ------------------------------------------------------------ pure helpers
RECURSIVE SortAsc(_)
\* ORDER BY version ASC over the rows of the table
SortAsc(S) ==
    IF S = {} THEN <<>>
    ELSE LET m == CHOOSE x \in S : \A y \in S : x <= y
         IN <<m>> \o SortAsc(S \ {m})

RECURSIVE Reverse(_)
Reverse(s) == IF s = <<>> THEN <<>> ELSE Append(Reverse(Tail(s)), Head(s))

Range(s) == {s[i] : i \in 1..Len(s)}

\* Results: Ok(()) or the error returned to the caller.
Ok == [kind |-> "ok", file |-> 0, version |-> 0]
DriverError == [kind |-> "driver", file |-> 0, version |-> 0]
UnitError == [kind |-> "unit", file |-> 0, version |-> 0]
\* into_migration_error("Migration mismatch: ... '{file}' != '{version}' ...")
MismatchError(f, v) == [kind |-> "drift", file |-> f, version |-> v]
\* into_migration_error("Migration file of version '{version}' is missing ...")
MissingFileError(v) == [kind |-> "drift", file |-> 0, version |-> v]

\* get_migration_files with every unit wrapped as Applied
get_migration_files_Applied(decl) ==
    [i \in 1..Len(decl) |-> [name |-> decl[i], status |-> "Applied"]]

\* Vec<Migration>: every declared unit wrapped with status Pending
get_migration_files(decl) ==
    [i \in 1..Len(decl) |-> [name |-> decl[i], status |-> "Pending"]]

RECURSIVE StatusLoop(_, _, _)
RECURSIVE StatusLoop_NoMissing(_, _, _)
\* the loop without the else branch of `if let Some(migration_file)`: rows
\* beyond the declared list are skipped
StatusLoop_NoMissing(files, models, i) ==
    IF i > Len(models) \/ i > Len(files) THEN [res |-> Ok, files |-> files]
    ELSE IF files[i].name = models[i]
         THEN StatusLoop_NoMissing([files EXCEPT ![i].status = "Applied"], models, i + 1)
         ELSE [res |-> MismatchError(files[i].name, models[i]), files |-> <<>>]

RECURSIVE StatusLoop_NoNameCheck(_, _, _)
\* the loop without the comparison of name and version
StatusLoop_NoNameCheck(files, models, i) ==
    IF i > Len(models) THEN [res |-> Ok, files |-> files]
    ELSE IF i <= Len(files)
         THEN StatusLoop_NoNameCheck([files EXCEPT ![i].status = "Applied"], models, i + 1)
         ELSE [res |-> MissingFileError(models[i]), files |-> <<>>]

\* the for loop of get_migration_with_status, from history row i on
StatusLoop(files, models, i) ==
    IF i > Len(models) THEN [res |-> Ok, files |-> files]
    ELSE IF i <= Len(files)
         THEN IF files[i].name = models[i]
              THEN StatusLoop([files EXCEPT ![i].status = "Applied"], models, i + 1)
              ELSE [res |-> MismatchError(files[i].name, models[i]), files |-> <<>>]
         ELSE [res |-> MissingFileError(models[i]), files |-> <<>>]

\* a reconcile that reports an empty declared list as an error
get_migration_with_status_NoFiles(decl, models) ==
    IF decl = <<>> THEN [res |-> MissingFileError(0), files |-> <<>>]
    ELSE StatusLoop(get_migration_files(decl), models, 1)

get_migration_with_status(decl, models) ==
    StatusLoop(get_migration_files(decl), models, 1)

IsPending(f) == f.status = "Pending"
IsApplied(f) == f.status = "Applied"
NameOf(files) == [i \in 1..Len(files) |-> files[i].name]

\* the pending units taken newest first
get_pending_migrations_Rev(files) == Reverse(NameOf(SelectSeq(files, IsPending)))

get_pending_migrations(files) == NameOf(SelectSeq(files, IsPending))
get_applied_migrations(files) == NameOf(SelectSeq(files, IsApplied))

\* the head of the for loop of up and down: is another unit taken?
TakesNext(queue, steps) ==
    /\ queue /= <<>>
    /\ (steps = None \/ steps[1] /= 0)

\* *steps -= 1 when steps is Some
Decrement(steps) == IF steps = None THEN None ELSE Some(steps[1] - 1)

\* number of install() calls before the SELECT of get_migration_models
InstallsBeforeSelect(phase) == IF phase = "status" THEN 3 ELSE 4

Event(e, u, ok) == [ev |-> e, unit |-> u, ok |-> ok]

\* ------------------------------------------------------------- statements
\* the types that implement MigrationStatementBuilder
QueryStmts == {"InsertStatement", "SelectStatement", "UpdateStatement",
               "DeleteStatement"}
SchemaStmts == {"TableCreateStatement", "TableDropStatement",
                "TableAlterStatement", "TableRenameStatement",
                "TableTruncateStatement", "IndexCreateStatement",
                "IndexDropStatement", "ForeignKeyCreateStatement",
                "ForeignKeyDropStatement"}
TypeStmts == {"TypeAlterStatement", "TypeCreateStatement", "TypeDropStatement"}
Stmts == QueryStmts \cup SchemaStmts \cup TypeStmts \cup {"String"}

\* what a call of build comes to: the (String, Vec<Value>) it returns, here
\* the statement and the query builder that rendered it, or a panic; its
\* return type has no error value
Sql(stmt, builder) == [kind |-> "sql", stmt |-> stmt, builder |-> builder]
Panic == [kind |-> "panic", stmt |-> "none", builder |-> "none"]
QueryBuilder(b) ==
    IF b = "MySql" THEN "MysqlQueryBuilder"
    ELSE IF b = "Postgres" THEN "PostgresQueryBuilder"
    ELSE "SqliteQueryBuilder"

build_any_stmt(stmt, b) == Sql(stmt, QueryBuilder(b))
\* unimplemented!() on MySql and Sqlite
build_postgres_stmt(stmt, b) ==
    IF b = "Postgres" THEN Sql(stmt, "PostgresQueryBuilder") ELSE Panic

\* MigrationStatementBuilder::build(&self, db_backend)
build(stmt, b) ==
    IF stmt \in TypeStmts THEN build_postgres_stmt(stmt, b)
    ELSE IF stmt = "String" THEN Sql(stmt, "none")
    ELSE build_any_stmt(stmt, b)

\* the exec_stmt call: stmt: its statement; pc: "build" before build is
\* called, "send" when the SQL is built, "returned" or "panicked" at its
\* end; sent: the SQL handed to the driver; res: the returned Result
NoExec == [stmt |-> "none", pc |-> "idle", sent |-> <<>>, res |-> Ok]

\* ------------------------------------------------------- invocation record
\* op: the operation the caller invoked, arg: its steps argument;
\* phase: the operation now running (fresh and refresh end in up);
\* pc: the next call; k: install() calls left before the next call;
\* steps: `mut steps`; queue: the `migrations` iterator of up or down;
\* rows: the rows of fresh's queries not yet iterated; res: the returned
\* Result; log: the calls made so far; models and files: what the last
\* get_migration_with_status read and returned; hist0, tables0 and fks0: the
\* database when the operation was invoked.
Idle ==
    [op |-> "none", arg |-> None, phase |-> "none", pc |-> "idle", k |-> 0,
     steps |-> None, queue |-> <<>>, rows |-> {}, res |-> Ok, log |-> <<>>,
     models |-> <<>>, files |-> <<>>, hist0 |-> {}, tables0 |-> {},
     fks0 |-> {}]
Off == [Idle EXCEPT !.pc = "off"]

\* prev keeps the operation completed last when the laws about two operations
\* in a row speak of it: fresh, up(None) or down(None) that returned Ok(()),
\* and, for the hosts of LongLists, up(Some(k)) that returned Ok(()) and the
\* up or down that returned because the INSERT or DELETE of a unit failed
\* (op "up_unrecorded" or "down_unrecorded", unit: that unit).
NoPrev == [op |-> "none", arg |-> None, hist0 |-> {}, unit |-> 0]
Summary(r) ==
    IF /\ r.pc = "done" /\ r.res = Ok
       /\ \/ r.arg = None /\ r.op \in {"fresh", "up", "down"}
          \/ r.op = "up" /\ Len(declared) > MaxLen
    THEN [op |-> r.op, arg |-> r.arg, hist0 |-> r.hist0, unit |-> 0]
    ELSE IF /\ r.pc = "done" /\ r.op \in {"up", "down"}
            /\ Len(declared) > MaxLen
            /\ r.log /= <<>>
            /\ r.log[Len(r.log)].ev \in {"insert", "delete"}
            /\ ~r.log[Len(r.log)].ok
    THEN [op |-> IF r.op = "up" THEN "up_unrecorded" ELSE "down_unrecorded",
          arg |-> r.arg, hist0 |-> r.hist0, unit |-> r.log[Len(r.log)].unit]
    ELSE NoPrev

Logged(r, e, u, ok) == [r EXCEPT !.log = Append(@, Event(e, u, ok))]

\* `?` on an Err: the operation returns the error
Failed(r, err) == [r EXCEPT !.pc = "done", !.res = err]

\* Self::up(db, None) called by fresh and refresh
BeginUp(r) ==
    [r EXCEPT !.phase = "up", !.pc = "install",
              !.k = InstallsBeforeSelect("up"), !.steps = None,
              !.queue = <<>>]

\* refresh that returns after its down, without the up
EndPhase_NoUp(r) == [r EXCEPT !.pc = "done", !.res = Ok]

\* the operation running in phase returned Ok(())
EndPhase(r) ==
    IF r.op = "refresh" /\ r.phase = "down"
    THEN BeginUp(r)
    ELSE [r EXCEPT !.pc = "done", !.res = Ok]

\* the for loop of up and down takes its next unit or ends
Continue(r) ==
    IF TakesNext(r.queue, r.steps) THEN [r EXCEPT !.pc = "body"] ELSE EndPhase(r)

\* fresh without the SQLite pragma
AfterFreshInstall_NoPragma(b) ==
    IF b = "MySql" THEN "query_fks" ELSE "query_tables"

\* fresh without the MySQL foreign key drops
AfterFreshInstall_NoFkDrop(b) ==
    IF b = "Sqlite" THEN "pragma_off" ELSE "query_tables"

\* where fresh goes after its install()
AfterFreshInstall(b) ==
    IF b = "Sqlite" THEN "pragma_off"
    ELSE IF b = "MySql" THEN "query_fks"
    ELSE "query_tables"

\* fresh that returns after its drops, without the final up
AfterDrops_NoUp(r, b) == [r EXCEPT !.pc = "done", !.res = Ok]

\* fresh that goes from its drops to up without the SQLite pragma
AfterDrops_NoPragmaOn(r, b) == BeginUp(r)

\* fresh after the last table is dropped
AfterDrops(r, b) ==
    IF b = "Sqlite" THEN [r EXCEPT !.pc = "pragma_on"] ELSE BeginUp(r)

\* the caller drives one operation to completion before starting another
Quiet == \A q \in Procs : inv[q].pc \in {"idle", "done", "off"}

\* the invocation record of an operation that was just called
Begun(op, arg, phase) ==
    [Idle EXCEPT !.op = op, !.arg = arg, !.phase = phase,
                 !.pc = "install",
                 !.k = IF phase = "fresh" THEN 1
                       ELSE InstallsBeforeSelect(phase),
                 !.steps = arg, !.hist0 = history,
                 !.tables0 = tables, !.fks0 = fks]

Invoke(p, op, arg, phase) ==
    /\ Quiet
    /\ inv[p].pc \in {"idle", "done"}
    /\ inv' = [inv EXCEPT ![p] = Begun(op, arg, phase)]
    /\ prev' = Summary(inv[p])
    /\ UNCHANGED <<exec, declared, backend, tables, history, fks, fkCheck>>

\* status that goes on like up(None)
Status_AsUp(p) == Invoke(p, "status", None, "up")

Up(p, steps) == Invoke(p, "up", steps, "up")
Down(p, steps) == Invoke(p, "down", steps, "down")
Status(p) == Invoke(p, "status", None, "status")
Fresh(p) == Invoke(p, "fresh", None, "fresh")
Refresh(p) == Invoke(p, "refresh", None, "down")
Reset(p) == Invoke(p, "reset", None, "down")

\* install(): CREATE TABLE IF NOT EXISTS seaql_migrations
Install(p) ==
    LET r == inv[p] IN
    /\ r.pc = "install"
    /\ \E ok \in BOOLEAN :
         IF ok
         THEN /\ tables' = tables \cup {SeaqlMigrations}
              /\ inv' = [inv EXCEPT ![p] =
                    [Logged(r, "install", 0, TRUE) EXCEPT
                       !.k = r.k - 1,
                       !.pc = IF r.k > 1 THEN "install"
                              ELSE IF r.phase = "fresh"
                                   THEN AfterFreshInstall(backend)
                                   ELSE "select"]]
         ELSE /\ tables' = tables
              /\ inv' = [inv EXCEPT ![p] =
                    Failed(Logged(r, "install", 0, FALSE), DriverError)]
    /\ UNCHANGED <<exec, declared, backend, history, fks, fkCheck, prev>>

\* down without .rev(): the oldest applied unit is rolled back first
DownOrder_NoRev(applied) == applied

\* down: get_applied_migrations(db).await?.into_iter().rev()
DownOrder(applied) == Reverse(applied)

\* what a caller of get_migration_with_status does with Ok(files)
Reconciled(r, files) ==
    IF r.phase = "status" THEN EndPhase([r EXCEPT !.files = files])
    ELSE Continue([r EXCEPT !.files = files,
                     !.queue = IF r.phase = "up"
                               THEN get_pending_migrations(files)
                               ELSE DownOrder(get_applied_migrations(files))])

\* the reconcile without the `?` of its caller: the error is dropped
AfterSelect_NoQuestionMark(r, got) == Reconciled(r, got.files)

\* the `?` on get_migration_with_status and on get_pending_migrations /
\* get_applied_migrations: an Err is returned before the for loop
AfterSelect(r, got) ==
    IF got.res = Ok THEN Reconciled(r, got.files) ELSE Failed(r, got.res)

\* get_migration_models' SELECT ... ORDER BY version ASC, then the loop of
\* get_migration_with_status and the filter of the caller
Select(p) ==
    LET r == inv[p] IN
    /\ r.pc = "select"
    /\ \E ok \in BOOLEAN :
         IF ok /\ SeaqlMigrations \in tables
         THEN LET models == SortAsc(history)
                  got == get_migration_with_status(declared, models)
                  r1 == [Logged(r, "select", 0, TRUE) EXCEPT !.models = models]
              IN inv' = [inv EXCEPT ![p] = AfterSelect(r1, got)]
         ELSE inv' = [inv EXCEPT ![p] =
                    Failed(Logged(r, "select", 0, FALSE), DriverError)]
    /\ UNCHANGED <<exec, declared, backend, tables, history, fks, fkCheck, prev>>

\* AfterBody without the `?` on the body: the row is written after an Err
AfterBody_NoQuestionMark(r, ok) == [r EXCEPT !.pc = "record"]

\* what the for loop of up and down does with the Result of a unit's body
AfterBody(r, ok) ==
    IF ok THEN [r EXCEPT !.pc = "record"] ELSE Failed(r, UnitError)

\* AfterRecord without the `?` on exec_stmt: the loop goes on after an Err
AfterRecord_NoQuestionMark(r, ok) == Continue([r EXCEPT !.queue = Tail(@)])

\* what the for loop does with the Result of the INSERT or DELETE
AfterRecord(r, ok) ==
    IF ok THEN Continue([r EXCEPT !.queue = Tail(@)]) ELSE Failed(r, DriverError)

\* an INSERT into a table without the primary key on version
InsertAccepted_NoKey(h, t, v) == SeaqlMigrations \in t

\* INSERT INTO seaql_migrations (version, applied_at): version is the key
InsertAccepted(h, t, v) == SeaqlMigrations \in t /\ v \notin h
InsertRow(h, v) == h \cup {v}
\* DELETE FROM seaql_migrations WHERE version = v
DeleteRow(h, v) == h \ {v}

\* up: steps check, then migration.up(&manager).  The body of the unit
\* named u creates table u with a foreign key.
UpBody(p) ==
    LET r == inv[p]
        u == Head(r.queue)
    IN
    /\ r.pc = "body" /\ r.phase = "up"
    /\ \E ok \in BOOLEAN :
         /\ inv' = [inv EXCEPT ![p] =
               AfterBody([Logged(r, "up", u, ok) EXCEPT
                            !.steps = Decrement(r.steps)], ok)]
         /\ tables' = IF ok THEN tables \cup {u} ELSE tables
         /\ fks' = IF ok THEN fks \cup {u} ELSE fks
    /\ UNCHANGED <<exec, declared, backend, history, fkCheck, prev>>

\* up: the INSERT of the unit's row after its body returned Ok
UpRecord(p) ==
    LET r == inv[p]
        u == Head(r.queue)
    IN
    /\ r.pc = "record" /\ r.phase = "up"
    /\ \E try \in BOOLEAN :
         LET ok == try /\ InsertAccepted(history, tables, u) IN
         /\ inv' = [inv EXCEPT ![p] = AfterRecord(Logged(r, "insert", u, ok), ok)]
         /\ history' = IF ok THEN InsertRow(history, u) ELSE history
    /\ UNCHANGED <<exec, declared, backend, tables, fks, fkCheck, prev>>

\* down: steps check, then migration.down(&manager).  The body of the unit
\* named u drops table u.
DownBody(p) ==
    LET r == inv[p]
        u == Head(r.queue)
    IN
    /\ r.pc = "body" /\ r.phase = "down"
    /\ \E ok \in BOOLEAN :
         /\ inv' = [inv EXCEPT ![p] =
               AfterBody([Logged(r, "down", u, ok) EXCEPT
                            !.steps = Decrement(r.steps)], ok)]
         /\ tables' = IF ok THEN tables \ {u} ELSE tables
         /\ fks' = IF ok THEN fks \ {u} ELSE fks
    /\ UNCHANGED <<exec, declared, backend, history, fkCheck, prev>>

\* down: the DELETE of the unit's row after its body returned Ok
DownRecord(p) ==
    LET r == inv[p]
        u == Head(r.queue)
    IN
    /\ r.pc = "record" /\ r.phase = "down"
    /\ \E try \in BOOLEAN :
         LET ok == try /\ SeaqlMigrations \in tables IN
         /\ inv' = [inv EXCEPT ![p] = AfterRecord(Logged(r, "delete", u, ok), ok)]
         /\ history' = IF ok THEN DeleteRow(history, u) ELSE history
    /\ UNCHANGED <<exec, declared, backend, tables, fks, fkCheck, prev>>

\* fresh on SQLite: PRAGMA foreign_keys = OFF
PragmaOff(p) ==
    LET r == inv[p] IN
    /\ r.pc = "pragma_off"
    /\ \E ok \in BOOLEAN :
         /\ inv' = [inv EXCEPT ![p] =
               IF ok THEN [Logged(r, "pragma_off", 0, TRUE) EXCEPT !.pc = "query_tables"]
               ELSE Failed(Logged(r, "pragma_off", 0, FALSE), DriverError)]
         /\ fkCheck' = IF ok THEN FALSE ELSE fkCheck
    /\ UNCHANGED <<exec, declared, backend, tables, history, fks, prev>>

\* fresh on MySQL: the SELECT over information_schema.table_constraints
QueryFks(p) ==
    LET r == inv[p] IN
    /\ r.pc = "query_fks"
    /\ \E ok \in BOOLEAN :
         inv' = [inv EXCEPT ![p] =
               IF ok THEN [Logged(r, "query_fks", 0, TRUE) EXCEPT
                             !.rows = fks,
                             !.pc = IF fks = {} THEN "query_tables" ELSE "drop_fk"]
               ELSE Failed(Logged(r, "query_fks", 0, FALSE), DriverError)]
    /\ UNCHANGED <<exec, declared, backend, tables, history, fks, fkCheck, prev>>

\* fresh on MySQL: ALTER TABLE t DROP FOREIGN KEY for the next row
DropFk(p) ==
    LET r == inv[p] IN
    /\ r.pc = "drop_fk"
    /\ \E t \in r.rows, ok \in BOOLEAN :
         /\ inv' = [inv EXCEPT ![p] =
               IF ok THEN [Logged(r, "drop_fk", 0, TRUE) EXCEPT
                             !.rows = r.rows \ {t},
                             !.pc = IF r.rows = {t} THEN "query_tables" ELSE "drop_fk"]
               ELSE Failed(Logged(r, "drop_fk", 0, FALSE), DriverError)]
         /\ fks' = IF ok THEN fks \ {t} ELSE fks
    /\ UNCHANGED <<exec, declared, backend, tables, history, fkCheck, prev>>

\* query_tables that leaves the history table out of its rows
query_tables_NoSeaql(t) == t \ {SeaqlMigrations}

\* the rows of query_tables(db): every table of the current schema,
\* seaql_migrations among them
query_tables(t) == t

\* fresh: the SELECT of query_tables(db)
QueryTables(p) ==
    LET r == inv[p] IN
    /\ r.pc = "query_tables"
    /\ \E ok \in BOOLEAN :
         inv' = [inv EXCEPT ![p] =
               IF ok THEN LET r1 == [Logged(r, "query_tables", 0, TRUE) EXCEPT
                                       !.rows = query_tables(tables)]
                          IN IF r1.rows = {} THEN AfterDrops(r1, backend)
                             ELSE [r1 EXCEPT !.pc = "drop_table"]
               ELSE Failed(Logged(r, "query_tables", 0, FALSE), DriverError)]
    /\ UNCHANGED <<exec, declared, backend, tables, history, fks, fkCheck, prev>>

\* fresh: DROP TABLE IF EXISTS t CASCADE for the next row
DropTable(p) ==
    LET r == inv[p] IN
    /\ r.pc = "drop_table"
    /\ \E t \in r.rows, ok \in BOOLEAN :
         /\ inv' = [inv EXCEPT ![p] =
               IF ok THEN LET r1 == [Logged(r, "drop_table", 0, TRUE) EXCEPT
                                       !.rows = r.rows \ {t}]
                          IN IF r.rows = {t} THEN AfterDrops(r1, backend)
                             ELSE r1
               ELSE Failed(Logged(r, "drop_table", 0, FALSE), DriverError)]
         /\ tables' = IF ok THEN tables \ {t} ELSE tables
         /\ fks' = IF ok THEN fks \ {t} ELSE fks
         /\ history' = IF ok /\ t = SeaqlMigrations THEN {} ELSE history
    /\ UNCHANGED <<exec, declared, backend, fkCheck, prev>>

\* fresh on SQLite: PRAGMA foreign_keys = ON
PragmaOn(p) ==
    LET r == inv[p] IN
    /\ r.pc = "pragma_on"
    /\ \E ok \in BOOLEAN :
         /\ inv' = [inv EXCEPT ![p] =
               IF ok THEN BeginUp(Logged(r, "pragma_on", 0, TRUE))
               ELSE Failed(Logged(r, "pragma_on", 0, FALSE), DriverError)]
         /\ fkCheck' = IF ok THEN TRUE ELSE fkCheck
    /\ UNCHANGED <<exec, declared, backend, tables, history, fks, prev>>

\* up(None) called by a caller that does not wait for the operation of the
\* other caller to return: the engine takes no lock
UpUnlocked(p) ==
    /\ inv[p].pc = "idle"
    /\ inv' = [inv EXCEPT ![p] = Begun("up", None, "up")]
    /\ UNCHANGED <<exec, declared, backend, tables, history, fks, fkCheck, prev>>

\* a unit body calls SchemaManager::exec_stmt (or create_type, ...) with a
\* statement; the connection builds it for its backend
ExecStmt(stmt) ==
    /\ exec.pc \in {"idle", "returned"}
    /\ exec' = [NoExec EXCEPT !.stmt = stmt, !.pc = "build"]
    /\ UNCHANGED <<declared, backend, tables, history, fks, fkCheck, inv, prev>>

\* stmt.build(&backend): a panic unwinds the call, nothing is returned
Build ==
    /\ exec.pc = "build"
    /\ LET sql == build(exec.stmt, backend) IN
       exec' = IF sql.kind = "panic" THEN [exec EXCEPT !.pc = "panicked"]
               ELSE [exec EXCEPT !.pc = "send", !.sent = <<sql>>]
    /\ UNCHANGED <<declared, backend, tables, history, fks, fkCheck, inv, prev>>

\* the driver executes the SQL and the call returns its Result
Send ==
    /\ exec.pc = "send"
    /\ \E ok \in BOOLEAN :
         exec' = [exec EXCEPT !.pc = "returned",
                              !.res = IF ok THEN Ok ELSE DriverError]
    /\ UNCHANGED <<declared, backend, tables, history, fks, fkCheck, inv, prev>>

\* ------------------------------------------------------------ specification
\* a database nothing was ever run against
Init ==
    /\ declared \in Lists
    /\ backend \in Backends
    /\ tables = {}
    /\ history = {}
    /\ fks = {}
    /\ fkCheck = TRUE
    /\ inv = [p \in Procs |-> IF p = 1 THEN Idle ELSE Off]
    /\ prev = NoPrev
    /\ exec = NoExec

\* a database that was in use before: any rows in seaql_migrations, the
\* tables of the units recorded there, and possibly a table of no unit
InitAny ==
    /\ declared \in Lists
    /\ backend \in Backends
    /\ history \in SUBSET Names
    /\ \E seaql \in SUBSET {SeaqlMigrations}, other \in SUBSET {Orphan} :
         /\ history /= {} => seaql /= {}
         /\ tables = seaql \cup history \cup other
    /\ fks = tables \ {SeaqlMigrations}
    /\ fkCheck = TRUE
    /\ inv = [p \in Procs |-> IF p = 1 THEN Idle ELSE Off]
    /\ prev = NoPrev
    /\ exec = NoExec

Next ==
    \E p \in Procs :
        \/ \E s \in StepArgs : Up(p, s)
        \/ \E s \in StepArgs : Down(p, s)
        \/ Status(p)
        \/ Fresh(p)
        \/ Refresh(p)
        \/ Reset(p)
        \/ Install(p)
        \/ Select(p)
        \/ UpBody(p)
        \/ UpRecord(p)
        \/ DownBody(p)
        \/ DownRecord(p)
        \/ PragmaOff(p)
        \/ QueryFks(p)
        \/ DropFk(p)
        \/ QueryTables(p)
        \/ DropTable(p)
        \/ PragmaOn(p)

\* a database nothing was ever run against and a host that declares one unit
\* more than the lists of Init; here NumNames + 1 is the table of the unit of
\* that name, and there is no table without a unit
InitLong ==
    /\ declared \in LongLists
    /\ backend \in Backends
    /\ tables = {}
    /\ history = {}
    /\ fks = {}
    /\ fkCheck = TRUE
    /\ inv = [p \in Procs |-> IF p = 1 THEN Idle ELSE Off]
    /\ prev = NoPrev
    /\ exec = NoExec

\* a database nothing was ever run against and a host whose migrations()
\* returns two units of one name
InitDup ==
    /\ declared \in DupLists
    /\ backend \in Backends
    /\ tables = {}
    /\ history = {}
    /\ fks = {}
    /\ fkCheck = TRUE
    /\ inv = [p \in Procs |-> IF p = 1 THEN Idle ELSE Off]
    /\ prev = NoPrev
    /\ exec = NoExec

\* a connection of any backend on which no statement was executed yet
InitExec ==
    /\ declared = <<>>
    /\ backend \in Backends
    /\ tables = {}
    /\ history = {}
    /\ fks = {}
    /\ fkCheck = TRUE
    /\ inv = [p \in Procs |-> Off]
    /\ prev = NoPrev
    /\ exec = NoExec

NextExec ==
    \/ \E stmt \in Stmts : ExecStmt(stmt)
    \/ Build
    \/ Send

\* a database nothing was ever run against and two callers
InitTwo ==
    /\ declared \in Lists
    /\ backend \in Backends
    /\ tables = {}
    /\ history = {}
    /\ fks = {}
    /\ fkCheck = TRUE
    /\ inv = [p \in Procs |-> Idle]
    /\ prev = NoPrev
    /\ exec = NoExec

\* the two up(None) interleave at every connection call and unit body
NextTwo ==
    \E p \in Procs :
        \/ UpUnlocked(p)
        \/ Install(p)
        \/ Select(p)
        \/ UpBody(p)
        \/ UpRecord(p)

Spec == Init /\ [][Next]_vars
SpecTwo == InitTwo /\ [][NextTwo]_vars
SpecExec == InitExec /\ [][NextExec]_vars
SpecDup == InitDup /\ [][Next]_vars
SpecLong == InitLong /\ [][Next]_vars
SpecAny == InitAny /\ [][Next]_vars
\* ------------------------------------------------------------- properties
IsPrefix(s, t) == Len(s) <= Len(t) /\ \A i \in 1..Len(s) : s[i] = t[i]
Last(s) == s[Len(s)]
NoFault(log) == \A i \in 1..Len(log) : log[i].ok

IsUpEvent(e) == e.ev = "up"
IsDownEvent(e) == e.ev = "down"
UnitsOf(events) == [i \in 1..Len(events) |-> events[i].unit]
\* the units whose up (down) body the operation has invoked, in order
UpBodies(r) == UnitsOf(SelectSeq(r.log, IsUpEvent))
DownBodies(r) == UnitsOf(SelectSeq(r.log, IsDownEvent))

\* the rows the last reconcile read
JustReconciled(r) == r.log /= <<>> /\ Last(r.log) = Event("select", 0, TRUE)
\* the pending units the last reconcile left: the declared units past the rows
PendingAfter(r) == SubSeq(declared, Len(r.models) + 1, Len(declared))
\* the applied units the last reconcile found, newest first
AppliedNewestFirst(r) == Reverse(SubSeq(declared, 1, Len(r.models)))

\* C1: whatever the order of the declared list and whatever operations have
\* run on a database that started empty, the rows of seaql_migrations in
\* ascending version order are a prefix of the declared list, by name and
\* by index; and a reconcile that reads rows that are no such prefix
\* returns the drift error.
C1_HistoryIsPrefixOfDeclared ==
    /\ IsPrefix(SortAsc(history), declared)
    /\ \A p \in Procs :
         (JustReconciled(inv[p]) /\ ~IsPrefix(inv[p].models, declared))
            => (inv[p].pc = "done" /\ inv[p].res.kind = "drift")

\* up returned an error from the body or from the INSERT of some unit
UpFailedAtUnit(r) ==
    /\ r.pc = "done" /\ r.phase = "up" /\ r.log /= <<>>
    /\ Last(r.log).ev \in {"up", "insert"}
    /\ ~Last(r.log).ok

\* C2: when up returns because the up body or the history insert of the
\* k-th pending unit failed, the error is returned, the up bodies invoked
\* by the call are exactly those of pending units 1..k in declared order
\* (none after k), the units before k have a history row and unit k has
\* none.
C2_UpFailureAtUnit ==
    \A p \in Procs :
        LET r == inv[p]
            pend == PendingAfter(r)
            k == Len(UpBodies(r))
        IN UpFailedAtUnit(r) =>
             /\ r.res.kind \in {"unit", "driver"}
             /\ k >= 1 /\ k <= Len(pend)
             /\ UpBodies(r) = SubSeq(pend, 1, k)
             /\ Last(r.log).unit = pend[k]
             /\ \A j \in 1..(k - 1) : pend[j] \in history
             /\ pend[k] \notin history

\* up applied the first of two pending units and failed at the second
C2_Witness ==
    \E p \in Procs :
        /\ UpFailedAtUnit(inv[p])
        /\ Len(PendingAfter(inv[p])) = 2
        /\ Len(UpBodies(inv[p])) = 2
\* down returned an error from the body or from the DELETE of some unit
DownFailedAtUnit(r) ==
    /\ r.pc = "done" /\ r.phase = "down" /\ r.log /= <<>>
    /\ Last(r.log).ev \in {"down", "delete"}
    /\ ~Last(r.log).ok

\* C3: when down returns because the down body or the history delete of
\* an applied unit failed, the error is returned, the down bodies invoked
\* by the call are exactly those of the applied units from the newest to
\* the failing one (none older), the rows of the units rolled back before
\* it are deleted, and after a failed down body the call makes no further
\* call and the unit's row is still there.
C3_DownFailureAtUnit ==
    \A p \in Procs :
        LET r == inv[p]
            ap == AppliedNewestFirst(r)
            k == Len(DownBodies(r))
        IN /\ DownFailedAtUnit(r) =>
                /\ r.res.kind \in {"unit", "driver"}
                /\ k >= 1 /\ k <= Len(ap)
                /\ DownBodies(r) = SubSeq(ap, 1, k)
                /\ Last(r.log).unit = ap[k]
                /\ \A j \in 1..(k - 1) : ap[j] \notin history
           /\ \A i \in 1..Len(r.log) :
                (r.log[i].ev = "down" /\ ~r.log[i].ok) =>
                    /\ i = Len(r.log)
                    /\ r.pc = "done" /\ r.res = UnitError
                    /\ r.log[i].unit \in history

\* down rolled back the newer of two applied units and the down body of
\* the older one returned an error
C3_Witness ==
    \E p \in Procs :
        /\ DownFailedAtUnit(inv[p])
        /\ Last(inv[p].log).ev = "down"
        /\ Len(inv[p].models) = 2
        /\ Len(DownBodies(inv[p])) = 2

\* the number of events e of log[1..i]
CountUpTo(log, i, e) == Cardinality({j \in 1..i : log[j].ev = e})
OkUnits(log, e) == {log[j].unit : j \in {i \in 1..Len(log) : log[i].ev = e /\ log[i].ok}}

\* C4: in one up the m-th up body invoked is that of the m-th pending unit
\* in declared order; the first follows the reconcile and every later one
\* follows the successful history insert of the unit before it; an insert
\* is made only right after the same unit's up body returned Ok, and the
\* rows are then those read plus those inserted.
C4_UpOrder ==
    \A p \in Procs :
        LET r == inv[p]
            pend == PendingAfter(r)
        IN /\ \A i \in 1..Len(r.log) :
                LET m == CountUpTo(r.log, i, "up") IN
                /\ r.log[i].ev = "up" =>
                     /\ i > 1 /\ m <= Len(pend) /\ r.log[i].unit = pend[m]
                     /\ IF m = 1 THEN r.log[i - 1] = Event("select", 0, TRUE)
                        ELSE r.log[i - 1] = Event("insert", pend[m - 1], TRUE)
                /\ r.log[i].ev = "insert" =>
                     /\ i > 1 /\ r.log[i - 1] = Event("up", r.log[i].unit, TRUE)
           /\ UpBodies(r) /= <<>> =>
                history = Range(r.models) \cup OkUnits(r.log, "insert")

\* an up that applied two units and returned Ok
C4_Witness ==
    \E p \in Procs :
        /\ inv[p].pc = "done" /\ inv[p].op = "up" /\ inv[p].res = Ok
        /\ Len(UpBodies(inv[p])) = 2
        /\ Cardinality(OkUnits(inv[p].log, "insert")) = 2

\* C5: in one down the m-th down body invoked is that of the m-th applied
\* unit counted from the newest; the first follows the reconcile and every
\* later one follows the successful history delete of the unit before it;
\* a delete is made only right after the same unit's down body returned
\* Ok, and it removes the row of that version and no other.
C5_DownOrder ==
    \A p \in Procs :
        LET r == inv[p]
            ap == AppliedNewestFirst(r)
        IN /\ r.phase = "down" =>
                \A i \in 1..Len(r.log) :
                   LET m == CountUpTo(r.log, i, "down") IN
                   r.log[i].ev = "down" =>
                     /\ i > 1 /\ m <= Len(ap) /\ r.log[i].unit = ap[m]
                     /\ IF m = 1 THEN r.log[i - 1] = Event("select", 0, TRUE)
                        ELSE r.log[i - 1] = Event("delete", ap[m - 1], TRUE)
           /\ \A i \in 1..Len(r.log) :
                r.log[i].ev = "delete" =>
                     /\ i > 1 /\ r.log[i - 1] = Event("down", r.log[i].unit, TRUE)
           /\ (r.phase = "down" /\ DownBodies(r) /= <<>>) =>
                history = Range(r.models) \ OkUnits(r.log, "delete")

\* a down that rolled back two units and returned Ok
C5_Witness ==
    \E p \in Procs :
        /\ inv[p].pc = "done" /\ inv[p].op = "down" /\ inv[p].res = Ok
        /\ Len(DownBodies(inv[p])) = 2
        /\ Cardinality(OkUnits(inv[p].log, "delete")) = 2
\* C6: on a database that started with an empty history, up(None) that
\* returned Ok followed by down(None) in which every call and body succeeds:
\* down returns Ok and the history is empty again.
C6_UpThenDownIsNoOp ==
    \A p \in Procs :
        LET r == inv[p] IN
        (/\ r.pc = "done" /\ r.op = "down" /\ r.arg = None
         /\ prev.op = "up" /\ prev.arg = None /\ prev.hist0 = {}
         /\ NoFault(r.log))
          => (r.res = Ok /\ history = {})

\* the rows, read in ascending version order, are no prefix of the declared list
Drifted(h) == ~IsPrefix(SortAsc(h), declared)

\* C7 as stated: an operation invoked on a drifted history, with no driver
\* call failing, returns the drift error, whichever operation it is.
C7_AnyOperationReportsDrift ==
    \A p \in Procs :
        LET r == inv[p] IN
        (r.pc = "done" /\ Drifted(r.hist0) /\ NoFault(r.log))
          => r.res.kind = "drift"

\* C7 amended: up, down, status, refresh and reset invoked on a drifted
\* history return the drift error when no driver call fails first and leave
\* the rows as they were; fresh does not: with every call succeeding it
\* returns Ok.
C7_AllButFreshReportDrift ==
    \A p \in Procs :
        LET r == inv[p] IN
        (r.pc = "done" /\ Drifted(r.hist0) /\ NoFault(r.log))
          => IF r.op = "fresh" THEN r.res = Ok
             ELSE r.res.kind = "drift" /\ history = r.hist0

\* m1 and m2 applied, m1 removed from the declared list, status called
C7_Witness ==
    \E p \in Procs :
        /\ inv[p].pc = "done" /\ inv[p].op = "status"
        /\ declared = <<2>> /\ inv[p].hist0 = {1, 2}
        /\ inv[p].res = MismatchError(2, 1)

\* C8: the rows a reconcile reads are the rows of the table in ascending
\* version order; if some row i has no declared unit at index i or one of
\* another name, the reconcile returns the drift error of the first such
\* row (naming the declared name and the version when the names differ,
\* the version when the unit is missing); otherwise it returns no error.
C8_ReconcileDrift ==
    \A p \in Procs :
        LET r == inv[p]
            m == r.models
            bad == {i \in 1..Len(m) : i > Len(declared) \/ declared[i] /= m[i]}
        IN JustReconciled(r) =>
             /\ Range(m) = history /\ Len(m) = Cardinality(history)
             /\ \A i, j \in 1..Len(m) : i < j => m[i] < m[j]
             /\ IF bad = {} THEN r.res = Ok
                ELSE LET i == CHOOSE x \in bad : \A y \in bad : x <= y IN
                     /\ r.pc = "done"
                     /\ r.res = IF i <= Len(declared)
                                THEN MismatchError(declared[i], m[i])
                                ELSE MissingFileError(m[i])

\* a reconcile that found a row past the end of the declared list
C8_Witness ==
    \E p \in Procs :
        /\ JustReconciled(inv[p])
        /\ declared = <<1>> /\ inv[p].models = <<1, 2>>
        /\ inv[p].res = MissingFileError(2)

\* C9: a reconcile that read n rows and returned Ok returns the declared
\* units in declared order, the first n Applied and the others Pending, so
\* that the applied units followed by the pending ones are the declared list.
C9_ReconcileStatuses ==
    \A p \in Procs :
        LET r == inv[p]
            n == Len(r.models)
        IN (JustReconciled(r) /\ r.res = Ok) =>
             /\ Len(r.files) = Len(declared)
             /\ \A i \in 1..Len(declared) :
                  /\ r.files[i].name = declared[i]
                  /\ r.files[i].status = IF i <= n THEN "Applied" ELSE "Pending"
             /\ get_applied_migrations(r.files) = SubSeq(declared, 1, n)
             /\ get_applied_migrations(r.files) \o get_pending_migrations(r.files)
                  = declared

\* a reconcile of two declared units against one row
C9_Witness ==
    \E p \in Procs :
        /\ JustReconciled(inv[p]) /\ inv[p].res = Ok
        /\ Len(inv[p].models) = 1 /\ Len(declared) = 2

\* C10 as stated: after status the tables and the history rows are what
\* they were when it was called.
C10_StatusChangesNothing ==
    \A p \in Procs :
        (inv[p].op = "status" /\ inv[p].pc = "done")
          => (tables = inv[p].tables0 /\ history = inv[p].hist0)

\* C10 amended: during and after status the history rows are what they
\* were when it was called, and so are the tables except that
\* seaql_migrations exists once an install() of the call has succeeded.
C10_StatusOnlyInstalls ==
    \A p \in Procs :
        LET r == inv[p] IN
        r.op = "status" =>
          /\ history = r.hist0
          /\ tables = IF Event("install", 0, TRUE) \in Range(r.log)
                      THEN r.tables0 \cup {SeaqlMigrations}
                      ELSE r.tables0

\* status returned Ok on a database that had no seaql_migrations table
C10_Witness ==
    \E p \in Procs :
        /\ inv[p].op = "status" /\ inv[p].pc = "done" /\ inv[p].res = Ok
        /\ SeaqlMigrations \notin inv[p].tables0
        /\ SeaqlMigrations \in tables

\* fresh ran to its end and none of its calls failed
FreshRanClean(r) == r.op = "fresh" /\ r.pc = "done" /\ NoFault(r.log)

\* C11: when fresh has returned and no unit body and no driver call of it
\* failed, it returned Ok, the history holds the row of every declared unit
\* and no other row, the tables are seaql_migrations and the tables of the
\* declared units, and it invoked the up body of every declared unit in
\* declared order: whatever rows and tables the database held before.
C11_FreshFinalState ==
    \A p \in Procs :
        LET r == inv[p] IN
        FreshRanClean(r) =>
            /\ r.res = Ok
            /\ history = Range(declared)
            /\ tables = {SeaqlMigrations} \cup Range(declared)
            /\ UpBodies(r) = declared

\* fresh succeeded on a database that held drifted rows and a table of no unit
C11_Witness ==
    \E p \in Procs :
        /\ FreshRanClean(inv[p]) /\ inv[p].res = Ok
        /\ declared /= <<>>
        /\ Drifted(inv[p].hist0)
        /\ inv[p].hist0 \ Range(declared) /= {}
        /\ Orphan \in inv[p].tables0
        /\ Orphan \notin tables

\* C12: a fresh that follows a fresh that returned Ok, and whose calls all
\* succeed, returns Ok and leaves the tables and the history rows that the
\* first fresh left, for any database the first one started from.
C12_FreshIdempotent ==
    \A p \in Procs :
        LET r == inv[p] IN
        (prev.op = "fresh" /\ FreshRanClean(r)) =>
            /\ r.res = Ok
            /\ tables = r.tables0
            /\ history = r.hist0

\* two fresh in a row succeeded, the first on a database with rows of
\* undeclared units and a table of no unit
C12_Witness ==
    \E p \in Procs :
        /\ prev.op = "fresh" /\ FreshRanClean(inv[p]) /\ inv[p].res = Ok
        /\ prev.hist0 \ Range(declared) /= {}
        /\ declared /= <<>>
        /\ history = inv[p].hist0 /\ tables = inv[p].tables0

\* the calls of the log before position i that succeeded and are of kind e
OkBefore(log, i, e) ==
    Cardinality({j \in 1..(i - 1) : log[j].ev = e /\ log[j].ok})
\* some call of kind e is in the log before position i
SomeBefore(log, i, e) == \E j \in 1..(i - 1) : log[j].ev = e

\* C13: fresh starts with install; on SQLite its next call is PRAGMA
\* foreign_keys = OFF, every DROP TABLE comes after the OFF pragma succeeded
\* and before the ON pragma, the ON pragma is executed when one DROP TABLE
\* per table of the schema (seaql_migrations among them) has succeeded and
\* no table is left, up(None) starts right after it, and no reconcile, up
\* body or INSERT comes before it; on MySQL and Postgres no pragma is
\* executed.
C13_SqliteFreshOrder ==
    \A p \in Procs :
        LET r == inv[p]
            log == r.log
        IN r.op = "fresh" =>
            /\ log /= <<>> => log[1].ev = "install"
            /\ backend /= "Sqlite" =>
                 \A i \in 1..Len(log) : log[i].ev \notin {"pragma_off", "pragma_on"}
            /\ backend = "Sqlite" =>
                 /\ Len(log) >= 2 => (log[1].ok /\ log[2].ev = "pragma_off")
                 /\ r.pc = "pragma_on" => tables = {}
                 /\ \A i \in 1..Len(log) :
                      /\ log[i].ev \in {"query_tables", "drop_table"} =>
                           /\ OkBefore(log, i, "pragma_off") = 1
                           /\ ~SomeBefore(log, i, "pragma_on")
                      /\ log[i].ev = "pragma_on" =>
                           /\ OkBefore(log, i, "drop_table")
                                = Cardinality(r.tables0 \cup {SeaqlMigrations})
                           /\ \A j \in 1..(i - 1) : log[j].ok
                           /\ (log[i].ok /\ i < Len(log)) => log[i + 1].ev = "install"
                      /\ log[i].ev \in {"select", "up", "insert"} =>
                           OkBefore(log, i, "pragma_on") = 1

\* fresh on SQLite dropped three tables between the two pragmas and then
\* applied two units
C13_Witness ==
    \E p \in Procs :
        LET r == inv[p] IN
        /\ backend = "Sqlite" /\ FreshRanClean(r) /\ r.res = Ok
        /\ Cardinality(r.tables0) >= 3
        /\ OkBefore(r.log, Len(r.log), "drop_table") >= 3
        /\ Len(UpBodies(r)) = 2
        /\ fkCheck

\* C14: fresh executes the foreign key query and ALTER TABLE ... DROP FOREIGN
\* KEY on MySQL only; there every DROP TABLE comes after the query and after
\* one successful foreign key drop per row the query returned, so that no
\* foreign key is left, and no foreign key drop comes after a DROP TABLE.
C14_MySqlFkDropsFirst ==
    \A p \in Procs :
        LET r == inv[p]
            log == r.log
        IN r.op = "fresh" =>
            /\ backend /= "MySql" =>
                 \A i \in 1..Len(log) : log[i].ev \notin {"query_fks", "drop_fk"}
            /\ backend = "MySql" =>
                 /\ r.pc \in {"query_tables", "drop_table"} => fks = {}
                 /\ \A i \in 1..Len(log) :
                      /\ log[i].ev \in {"query_tables", "drop_table"} =>
                           /\ OkBefore(log, i, "query_fks") = 1
                           /\ OkBefore(log, i, "drop_fk") = Cardinality(r.fks0)
                      /\ log[i].ev \in {"query_fks", "drop_fk"} =>
                           ~SomeBefore(log, i, "drop_table")

\* fresh on MySQL dropped two foreign keys and then the tables
C14_Witness ==
    \E p \in Procs :
        LET r == inv[p] IN
        /\ backend = "MySql" /\ FreshRanClean(r) /\ r.res = Ok
        /\ Cardinality(r.fks0) >= 2
        /\ OkBefore(r.log, Len(r.log), "drop_fk") = Cardinality(r.fks0)
        /\ OkBefore(r.log, Len(r.log), "drop_table") >= 3

Min(a, b) == IF a <= b THEN a ELSE b
\* the units a single up(steps) applies to a history of n rows that are a
\* prefix of the declared list: the next steps pending ones, or all of them
UpRange(n, steps) ==
    SubSeq(declared, n + 1,
           IF steps = None THEN Len(declared) ELSE Min(n + steps[1], Len(declared)))

\* an up whose calls all succeed, on a history that is a prefix of the
\* declared list, returns Ok, invokes the up bodies of UpRange and adds
\* their rows
UpEffect ==
    \A p \in Procs :
        LET r == inv[p] IN
        (r.op = "up" /\ r.pc = "done" /\ NoFault(r.log) /\ ~Drifted(r.hist0)) =>
            /\ r.res = Ok
            /\ UpBodies(r) = UpRange(Cardinality(r.hist0), r.arg)
            /\ history = r.hist0 \cup Range(UpBodies(r))

\* C15: up(Some(k)) that returned Ok on a history that is a prefix of the
\* declared list, followed by up(Some(m)) whose calls all succeed, leaves
\* the history rows, and the two calls together invoke the up bodies, of a
\* single up(Some(k + m)) on the first history.
C15_UpStepsAdd ==
    \A p \in Procs :
        LET r == inv[p]
            n == Cardinality(prev.hist0)
        IN (/\ prev.op = "up" /\ prev.arg /= None /\ ~Drifted(prev.hist0)
            /\ r.op = "up" /\ r.arg /= None
            /\ r.pc = "done" /\ NoFault(r.log)) =>
             LET once == UpRange(n, Some(prev.arg[1] + r.arg[1])) IN
             /\ history = prev.hist0 \cup Range(once)
             /\ UpRange(n, prev.arg) \o UpBodies(r) = once

\* C16: with an empty declared list, up, down, refresh and reset on a
\* database without history rows, and fresh on any database, return Ok
\* when none of their driver calls fails, invoke no unit body and leave
\* the history empty.
C16_EmptyDeclaredList ==
    \A p \in Procs :
        LET r == inv[p] IN
        (/\ declared = <<>>
         /\ r.op \in {"up", "down", "fresh", "refresh", "reset"}
         /\ r.op = "fresh" \/ r.hist0 = {}) =>
            /\ UpBodies(r) = <<>> /\ DownBodies(r) = <<>>
            /\ (r.pc = "done" /\ NoFault(r.log)) => (r.res = Ok /\ history = {})

\* refresh with an empty declared list returned Ok after its two reconciles
C16_Witness ==
    \E p \in Procs :
        LET r == inv[p] IN
        /\ declared = <<>> /\ r.op = "refresh" /\ r.hist0 = {}
        /\ r.pc = "done" /\ r.res = Ok /\ history = {}
        /\ Cardinality({i \in 1..Len(r.log) : r.log[i].ev = "select"}) = 2

\* C17: up(Some(0)) and down(Some(0)) on a database that only the engine
\* has written invoke no unit body, execute no INSERT and no DELETE, leave
\* the history rows and the unit tables as they were and, when their driver
\* calls succeed, return Ok: whatever the number of pending or applied units.
C17_ZeroSteps ==
    \A p \in Procs :
        LET r == inv[p] IN
        (r.op \in {"up", "down"} /\ r.arg = Some(0)) =>
            /\ \A i \in 1..Len(r.log) : r.log[i].ev \in {"install", "select"}
            /\ history = r.hist0
            /\ tables \ {SeaqlMigrations} = r.tables0 \ {SeaqlMigrations}
            /\ (r.pc = "done" /\ NoFault(r.log)) => r.res = Ok

\* the calls of a log that are install() calls, and where the up(None) of
\* refresh starts in it: at the first install() after those of down
InstallIdx(log) == {i \in 1..Len(log) : log[i].ev = "install"}
UpStart(log) ==
    IF Cardinality(InstallIdx(log)) > InstallsBeforeSelect("down")
    THEN CHOOSE i \in InstallIdx(log) :
           Cardinality({j \in InstallIdx(log) : j < i}) = InstallsBeforeSelect("down")
    ELSE Len(log) + 1
DownPart(log) == SubSeq(log, 1, UpStart(log) - 1)
UpPart(log) == SubSeq(log, UpStart(log), Len(log))
UnitsIn(log, e) == UnitsOf(SelectSeq(log, LAMBDA x : x.ev = e))

\* log is the log of a down(None) on history h0 that has left history h and,
\* when fin, has returned res
AsDownAll(log, h0, h, fin, res) ==
    LET all == Reverse(SubSeq(declared, 1, Cardinality(h0))) IN
    /\ \A i \in 1..Len(log) : log[i].ev \in {"install", "select", "down", "delete"}
    /\ h = h0 \ OkUnits(log, "delete")
    /\ UnitsIn(log, "down") /= <<>> => ~Drifted(h0)
    /\ ~Drifted(h0) => IsPrefix(UnitsIn(log, "down"), all)
    /\ fin =>
         /\ res = Ok <=> (NoFault(log) /\ ~Drifted(h0))
         /\ res = Ok => (UnitsIn(log, "down") = all /\ h = {})
         /\ (NoFault(log) /\ Drifted(h0)) => res.kind = "drift"

\* log is the log of an up(None) on an empty history that has left history h
\* and, when fin, has returned res
AsUpAll(log, h, fin, res) ==
    /\ \A i \in 1..Len(log) : log[i].ev \in {"install", "select", "up", "insert"}
    /\ h = OkUnits(log, "insert")
    /\ IsPrefix(UnitsIn(log, "up"), declared)
    /\ fin =>
         /\ res = Ok <=> NoFault(log)
         /\ res = Ok => (UnitsIn(log, "up") = declared /\ h = Range(declared))

\* C18: reset makes the calls and returns the result of down(None): both
\* satisfy the same description of the log, the history and the result.
\* refresh, while in its down and when it returns from it, does the same
\* except that it returns only errors from there and has invoked no up
\* body; once its down is complete its log is the log of a down(None) that
\* returned Ok followed by the log of an up(None), and its history and
\* result are those of an up(None) invoked after a down(None) that returned
\* Ok.
C18_ResetAndRefresh ==
    \A p \in Procs :
        LET r == inv[p]
            fin == r.pc = "done"
        IN
        /\ (r.op = "reset" \/ (r.op = "down" /\ r.arg = None)) =>
              AsDownAll(r.log, r.hist0, history, fin, r.res)
        /\ (r.op = "up" /\ r.arg = None /\ prev.op = "down") =>
              (r.hist0 = {} /\ AsUpAll(r.log, history, fin, r.res))
        /\ (r.op = "refresh" /\ r.phase = "down") =>
              /\ AsDownAll(r.log, r.hist0, history, fin, IF fin THEN r.res ELSE Ok)
              /\ UpBodies(r) = <<>>
              /\ fin => (r.res /= Ok /\ (~NoFault(r.log) \/ Drifted(r.hist0)))
        /\ (r.op = "refresh" /\ r.phase = "up") =>
              /\ AsDownAll(DownPart(r.log), r.hist0, {}, TRUE, Ok)
              /\ AsUpAll(UpPart(r.log), history, fin, r.res)

\* refresh rolled back two units, applied them again and returned Ok
C18_Witness ==
    \E p \in Procs :
        LET r == inv[p] IN
        /\ r.op = "refresh" /\ r.pc = "done" /\ r.res = Ok
        /\ Len(DownBodies(r)) = 2 /\ Len(UpBodies(r)) = 2
        /\ DownBodies(r) = Reverse(UpBodies(r))
        /\ history = r.hist0

\* C19: when the declared list holds a name twice, no operation invokes the
\* up body of a name a second time: the duplication is reported, by the
\* first reconcile at the latest, before that.
C19_DuplicateNamesDetected ==
    \A p \in Procs :
        ~NoDup(declared) => NoDup(UpBodies(inv[p]))

\* C20: when a Postgres type statement is executed through a MySQL or SQLite
\* connection, the call, once its build was called, has returned an error
\* value to the caller and no SQL was handed to the driver.
C20_TypeStmtUnsupported ==
    (/\ exec.stmt \in TypeStmts
     /\ backend \in {"MySql", "Sqlite"}
     /\ exec.pc \notin {"idle", "build"}) =>
        /\ exec.pc = "returned"
        /\ exec.res /= Ok
        /\ exec.sent = <<>>

\* C21: when the reconcile of up, down, reset, refresh or status reads rows
\* that are drift, the call returns the drift error right there; and an
\* operation that returned the drift error has made only install() calls
\* and the SELECT: it invoked no unit body, executed no INSERT and no
\* DELETE, and the history rows and the unit tables are those it found.
C21_DriftFailsBeforeAnyEffect ==
    \A p \in Procs :
        LET r == inv[p] IN
        r.op \in {"up", "down", "reset", "refresh", "status"} =>
            /\ (/\ JustReconciled(r)
                /\ get_migration_with_status(declared, r.models).res /= Ok) =>
                    (r.pc = "done" /\ r.res.kind = "drift")
            /\ r.res.kind = "drift" =>
                 /\ r.pc = "done"
                 /\ Last(r.log) = Event("select", 0, TRUE)
                 /\ \A i \in 1..(Len(r.log) - 1) : r.log[i].ev = "install"
                 /\ history = r.hist0
                 /\ tables \ {SeaqlMigrations} = r.tables0 \ {SeaqlMigrations}

\* refresh found two rows that are drift and returned the error
C21_Witness ==
    \E p \in Procs :
        LET r == inv[p] IN
        /\ r.op = "refresh" /\ r.pc = "done" /\ r.res.kind = "drift"
        /\ Cardinality(r.hist0) = 2 /\ history = r.hist0
        /\ declared /= <<>>

\* some call of kind e in the log succeeded
SomeOk(log, e) == \E i \in 1..Len(log) : log[i].ev = e /\ log[i].ok
\* fresh on SQLite returned after its OFF pragma had succeeded
FreshReturnedAfterOff(r) ==
    /\ backend = "Sqlite" /\ r.op = "fresh" /\ r.pc = "done"
    /\ SomeOk(r.log, "pragma_off")

\* C22 as stated: a fresh on SQLite that has executed PRAGMA foreign_keys =
\* OFF has executed PRAGMA foreign_keys = ON when it returns, and the
\* foreign key checks are on.
C22_PragmaAlwaysRestored ==
    \A p \in Procs :
        FreshReturnedAfterOff(inv[p]) =>
            (SomeOk(inv[p].log, "pragma_on") /\ fkCheck)

\* C22 amended: a fresh on SQLite whose OFF pragma succeeded executes the ON
\* pragma only after query_tables and every DROP TABLE succeeded; when one
\* of them fails it returns the driver error without executing the ON
\* pragma and the foreign key checks stay off; they are on when the ON
\* pragma succeeded, so whenever fresh returns Ok.
C22_PragmaRestoredOnSuccessOnly ==
    \A p \in Procs :
        LET r == inv[p]
            log == r.log
        IN FreshReturnedAfterOff(r) =>
            /\ (~Last(log).ok /\ Last(log).ev \in {"query_tables", "drop_table"}) =>
                 /\ r.res = DriverError
                 /\ \A i \in 1..Len(log) : log[i].ev /= "pragma_on"
                 /\ ~fkCheck
            /\ SomeOk(log, "pragma_on") <=> fkCheck
            /\ r.res = Ok => fkCheck

\* fresh on SQLite dropped a table, failed to drop the next one and returned
\* with the foreign key checks off
C22_Witness ==
    \E p \in Procs :
        LET r == inv[p] IN
        /\ FreshReturnedAfterOff(r)
        /\ Last(r.log) = Event("drop_table", 0, FALSE)
        /\ OkBefore(r.log, Len(r.log), "drop_table") >= 1
        /\ r.res = DriverError
        /\ ~fkCheck

\* up (down) returned because the INSERT (DELETE) that follows a unit's body
\* failed
RecordFailed(r, phase, e) ==
    /\ r.op = phase /\ r.pc = "done" /\ r.log /= <<>>
    /\ Last(r.log).ev = e /\ ~Last(r.log).ok

\* C23: when up returns because the INSERT after a unit's up body failed, it
\* returns the driver error and the unit has no row, and the next up that
\* takes a unit and whose calls succeed invokes that unit's up body first;
\* when down returns because the DELETE after a unit's down body failed,
\* the unit's row is still there, and the next such down invokes that
\* unit's down body first.
C23_UnrecordedUnitRunsAgain ==
    \A p \in Procs :
        LET r == inv[p]
            again == r.arg /= Some(0) /\ r.pc = "done" /\ NoFault(r.log)
        IN
        /\ RecordFailed(r, "up", "insert") =>
              (r.res = DriverError /\ Last(r.log).unit \notin history)
        /\ RecordFailed(r, "down", "delete") =>
              (r.res = DriverError /\ Last(r.log).unit \in history)
        /\ (prev.op = "up_unrecorded" /\ r.op = "up" /\ again) =>
              (UpBodies(r) /= <<>> /\ Head(UpBodies(r)) = prev.unit)
        /\ (prev.op = "down_unrecorded" /\ r.op = "down" /\ again) =>
              (DownBodies(r) /= <<>> /\ Head(DownBodies(r)) = prev.unit)

\* the longest log of an up(None): its install() calls, the SELECT, and a
\* body and an INSERT per declared unit
MaxUpLog == InstallsBeforeSelect("up") + 1 + 2 * MaxLen
\* the INSERTs of unit u's row that succeeded, over the two invocations
OkInserts(u) ==
    {<<p, i>> \in Procs \X (1..MaxUpLog) :
        /\ i <= Len(inv[p].log)
        /\ inv[p].log[i] = Event("insert", u, TRUE)}
\* invocation p has invoked the up body of unit u and it returned Ok
RanUpBody(p, u) ==
    \E i \in 1..Len(inv[p].log) : inv[p].log[i] = Event("up", u, TRUE)

\* C24: when two up(None) interleave at their calls, over both of them at
\* most one INSERT per unit succeeds, and the units that have a row are
\* those with a successful INSERT; an invocation whose INSERT failed has
\* returned the driver error with that INSERT as its last call; and no
\* invocation inserts a unit that had a row when it was called.
C24_UnlockedUps ==
    /\ \A u \in Names :
         /\ Cardinality(OkInserts(u)) <= 1
         /\ u \in history <=> OkInserts(u) /= {}
    /\ \A p \in Procs :
         LET r == inv[p] IN
         /\ Len(r.log) <= MaxUpLog
         /\ \A i \in 1..Len(r.log) :
              /\ (r.log[i].ev = "insert" /\ ~r.log[i].ok) =>
                   (i = Len(r.log) /\ r.pc = "done" /\ r.res = DriverError)
              /\ r.log[i].ev = "insert" => r.log[i].unit \notin r.hist0

\* both invocations found the first unit pending and invoked its up body;
\* the INSERT of one succeeded, and the INSERT of the other failed and ended
\* that invocation
C24_Witness ==
    \E p, q \in Procs, u \in Names :
        /\ p /= q
        /\ RanUpBody(p, u) /\ RanUpBody(q, u)
        /\ OkInserts(u) = {<<p, InstallsBeforeSelect("up") + 3>>}
        /\ Last(inv[q].log) = Event("insert", u, FALSE)
        /\ inv[q].pc = "done" /\ inv[q].res = DriverError
        /\ u \in history
====
